---- MODULE Spec2Model ----
(***************************************************************************)
(* Model of the ai_screener call-session state machine:                    *)
(*   interviews/views.py    TriggerInterviewView, TwilioWebhookView        *)
(*   interviews/services.py OpenAIService, TranscriptionService            *)
(*   interviews/models.py   Interview, InterviewResponse, InterviewResult  *)
(* Every webhook request is a process whose steps are the handler's        *)
(* database operations; a model object read from the database is a local   *)
(* copy and save() writes every field of that copy back to its row.        *)
(***************************************************************************)
EXTENDS Integers, Sequences, FiniteSets, TLC

\* ------------------------------------------------------------------ bounds
NumSessions == 1
MaxRequests == 2
MaxQuestions == 2
MaxStarts == 2
MaxSubmissions == 2
MaxMinutes == 16
MaxScripts == 2
MaxRejects == 1
MaxServiceCalls == 2

\* ------------------------------------------------------- program constants
max_retries == 3
max_wait == 30
wait_interval == 5
download_max_retries == 3
stuck_minutes == 10

\* --------------------------------------------------------- nullable values
\* A nullable column or an optional request field: None or Some(x).
None == <<>>
Some(x) == <<x>>
IsNone(v) == v = <<>>
Get(v) == v[1]

Sessions == 1..NumSessions
Procs == 1..MaxRequests

\* Provider call identifier of the call placed for session s (call.sid).
CallSidOf(s) == <<"CA", s>>
UnknownCallSid == <<"CA", 0>>
\* An interview id that matches no row.
UnknownId == NumSessions + 1

\* JobDescription.questions of a job description with n questions.
QuestionsOf(n) == [i \in 1..n |-> <<"Q", i>>]

\* ============================================================ OpenAIService

\* One provider behaviour for a request: the errors the successive attempts
\* raise (each "transient": the message holds 503, 429 or timeout; or
\* "permanent") and the text returned by the first attempt that succeeds.
\* _make_request: [raised, text, attempts].
RECURSIVE MakeRequestFrom(_, _)
MakeRequestFrom(b, attempt) ==
  IF attempt + 1 > Len(b.errors)
    THEN [raised |-> FALSE, text |-> b.text, attempts |-> attempt + 1]
  ELSE IF b.errors[attempt + 1] = "transient" /\ attempt < max_retries - 1
    THEN MakeRequestFrom(b, attempt + 1)
  ELSE [raised |-> TRUE, text |-> "", attempts |-> attempt + 1]

\* Variant: the first attempt is the only one.
MakeRequestOnce(b) ==
  IF Len(b.errors) = 0 THEN [raised |-> FALSE, text |-> b.text, attempts |-> 1]
  ELSE [raised |-> TRUE, text |-> "", attempts |-> 1]

MakeRequest(b) == MakeRequestFrom(b, 0)

\* json.loads on the texts the provider is modelled to return.  A JSON value
\* is [t |-> "num", v |-> n], [t |-> "str", v |-> s] or [t |-> "null"]; a key
\* that is absent from an object is absent from the record's keys.
JNum(n) == [t |-> "num", v |-> n]
JStr(s) == [t |-> "str", v |-> s]
JList(l) == [t |-> "list", v |-> l]
JNull == [t |-> "null"]

JsonLoads(text) ==
  CASE text = "analysis_full" ->
         [ok |-> TRUE, dict |-> TRUE,
          keys |-> {"score", "feedback"},
          score |-> JNum(8), feedback |-> JStr("good answer")]
    [] text = "analysis_empty" ->
         [ok |-> TRUE, dict |-> TRUE, keys |-> {}]
    [] text = "analysis_outofrange" ->
         [ok |-> TRUE, dict |-> TRUE,
          keys |-> {"score", "feedback"},
          score |-> JNum(42), feedback |-> JStr("good answer")]
    [] text = "analysis_badscore" ->
         [ok |-> TRUE, dict |-> TRUE,
          keys |-> {"score", "feedback"},
          score |-> JStr("high"), feedback |-> JStr("good answer")]
    [] text = "final_full" ->
         [ok |-> TRUE, dict |-> TRUE,
          keys |-> {"overall_score", "recommendation", "strengths",
                    "areas_for_improvement"},
          overall_score |-> JNum(8), recommendation |-> JStr("Hire"),
          strengths |-> JList(<<"clear">>),
          areas_for_improvement |-> JList(<<"depth">>)]
    [] text = "final_empty" ->
         [ok |-> TRUE, dict |-> TRUE, keys |-> {}]
    [] text = "final_nullscore" ->
         [ok |-> TRUE, dict |-> TRUE,
          keys |-> {"overall_score", "recommendation"},
          overall_score |-> JNull, recommendation |-> JStr("Hire")]
    [] text = "json_list" ->
         [ok |-> TRUE, dict |-> FALSE, keys |-> {}]
    [] OTHER ->
         [ok |-> FALSE, dict |-> FALSE, keys |-> {}]

\* dict.get(key, default)
DictGet(d, key, default) == IF key \in d.keys THEN d[key] ELSE default

\* analyze_response: [score, feedback] as JSON values.
AnalyzeResponse(b) ==
  LET r == MakeRequest(b)
      technical == [score |-> JNum(5),
                    feedback |-> JStr("Unable to analyze response due to technical issues.")]
  IN IF r.raised THEN technical
     ELSE LET j == JsonLoads(r.text)
          IN IF ~j.ok
               THEN [score |-> JNum(5),
                     feedback |-> JStr("Analysis completed but feedback format was unexpected.")]
             ELSE IF ~j.dict
               THEN technical
             ELSE [score |-> DictGet(j, "score", JNum(5)),
                   feedback |-> DictGet(j, "feedback", JStr("No specific feedback available."))]

\* generate_final_recommendation: the dict it returns (its keys and values).
DefaultUnexpected ==
  [keys |-> {"overall_score", "recommendation", "strengths", "areas_for_improvement"},
   overall_score |-> JNum(5),
   recommendation |-> JStr("Consider - Analysis completed but recommendation format was unexpected."),
   strengths |-> JList(<<"Analysis completed">>),
   areas_for_improvement |-> JList(<<"Unable to provide specific feedback">>)]

DefaultTechnical ==
  [keys |-> {"overall_score", "recommendation", "strengths", "areas_for_improvement"},
   overall_score |-> JNum(5),
   recommendation |-> JStr("Consider - Unable to generate recommendation due to technical issues."),
   strengths |-> JList(<<"Interview completed">>),
   areas_for_improvement |-> JList(<<"Technical analysis unavailable">>)]

GenerateFinalRecommendation(b) ==
  LET r == MakeRequest(b)
  IN IF r.raised THEN DefaultTechnical
     ELSE LET j == JsonLoads(r.text)
          IN IF ~j.ok THEN DefaultUnexpected
             ELSE IF ~j.dict THEN DefaultTechnical
             ELSE j

\* ===================================================== TranscriptionService

\* A recording reference is None or Some(path segments).  The segments the
\* model distinguishes: the markers "Recordings" and "recordings", "RE34" (RE
\* followed by 32 characters), "RE12" (RE followed by 10 characters) and
\* other words.
StartsWithRE(part) == part \in {"RE34", "RE12"}
LenOfPart(part) ==
  CASE part = "RE34" -> 34
    [] part = "RE12" -> 12
    [] part = "Recordings" -> 10
    [] part = "recordings" -> 10
    [] OTHER -> 5

\* Index of the last occurrence of marker that is followed by a segment, or 0.
LastMarker(parts, marker) ==
  LET at == {i \in 1..(Len(parts) - 1) : parts[i] = marker}
  IN IF at = {} THEN 0 ELSE CHOOSE i \in at : \A j \in at : j <= i

\* The part the fallback scan stops at: the last one that starts with RE and
\* is longer than 10 characters, or 0.
LastREPart(parts) ==
  LET at == {i \in 1..Len(parts) : StartsWithRE(parts[i]) /\ LenOfPart(parts[i]) > 10}
  IN IF at = {} THEN 0 ELSE CHOOSE i \in at : \A j \in at : j <= i

\* _extract_recording_sid: None or Some(sid).
ExtractRecordingSid(audio_url) ==
  IF IsNone(audio_url) THEN None
  ELSE LET parts == Get(audio_url)
           up == LastMarker(parts, "Recordings")
           lo == LastMarker(parts, "recordings")
           re == LastREPart(parts)
           cand == IF up > 0 THEN SubSeq(parts, up + 1, Len(parts))
                   ELSE IF lo > 0 THEN SubSeq(parts, lo + 1, Len(parts))
                   ELSE IF re > 0 THEN <<parts[re]>>
                   ELSE <<>>
       IN IF Len(cand) = 1 /\ StartsWithRE(cand[1]) /\ LenOfPart(cand[1]) = 34
            THEN Some(cand[1])
          ELSE None

\* Variant: the wait lasts twice max_wait.
RECURSIVE WaitLoopTwice(_, _, _)
WaitLoopTwice(recording_status, waited, env) ==
  IF recording_status # "completed" /\ waited < 2 * max_wait
    THEN LET w == waited + wait_interval
             r == env.polls[w \div wait_interval]
         IN WaitLoopTwice(IF r = "raise" THEN recording_status ELSE r, w, env)
  ELSE [status |-> recording_status, waited |-> waited,
        polls |-> waited \div wait_interval]

\* The readiness wait: [status, waited, polls] when the loop ends.
RECURSIVE WaitLoop(_, _, _)
WaitLoop(recording_status, waited, env) ==
  IF recording_status # "completed" /\ waited < max_wait
    THEN LET w == waited + wait_interval
             r == env.polls[w \div wait_interval]
         IN WaitLoop(IF r = "raise" THEN recording_status ELSE r, w, env)
  ELSE [status |-> recording_status, waited |-> waited,
        polls |-> waited \div wait_interval]

\* The download loop from attempt (0-based): [ok, attempts, msg].
RECURSIVE DownloadFrom(_, _)
DownloadFrom(env, attempt) ==
  LET st == env.downloads[attempt + 1]
      last == ~(attempt < download_max_retries - 1)
  IN IF st = "200"
       THEN [ok |-> TRUE, attempts |-> attempt + 1, msg |-> <<>>]
     ELSE IF ~last
       THEN DownloadFrom(env, attempt + 1)
     ELSE [ok |-> FALSE, attempts |-> attempt + 1,
           msg |-> <<"Failed to download audio after 3 attempts: ",
                     IF st = "404" THEN "Audio file not available after 3 attempts (HTTP 404)"
                     ELSE IF st = "exc" THEN "connection error"
                     ELSE "Failed to download audio: HTTP">>]

FailedPrefix == "Transcription failed: "
\* Variant: the message is returned without the prefix.
TranscriptionBare(msg) == msg
TranscriptionFailed(msg) == <<FailedPrefix>> \o msg

\* transcribe_audio: [text, stage, polls, downloads]; text is the returned
\* string as a sequence of its parts, stage the one that failed or "done".
TranscribeAudio(audio_url, env) ==
  LET sid == ExtractRecordingSid(audio_url)
      w == WaitLoop(env.fetch, 0, env)
      d == DownloadFrom(env, 0)
      res(text, stage, polls, downloads) ==
        [text |-> text, stage |-> stage, polls |-> polls, downloads |-> downloads]
  IN IF IsNone(sid)
       THEN res(TranscriptionFailed(<<"Could not extract recording SID from URL">>),
                "extract", 0, 0)
     ELSE IF env.fetch = "raise"
       THEN res(TranscriptionFailed(<<"Failed to fetch recording: ", "fetch error">>),
                "fetch", 0, 0)
     ELSE IF w.status # "completed"
       THEN res(TranscriptionFailed(<<"Failed to fetch recording: ",
                                      "Recording not completed after 30 seconds">>),
                "wait", w.polls, 0)
     ELSE IF env.media = "none"
       THEN res(TranscriptionFailed(<<"No media URL found for recording">>),
                "media", w.polls, 0)
     ELSE IF ~d.ok
       THEN res(TranscriptionFailed(d.msg), "download", w.polls, d.attempts)
     ELSE IF env.whisper = "raise"
       THEN res(TranscriptionFailed(<<"OpenAI transcription failed: ", "api error">>),
                "whisper", w.polls, d.attempts)
     ELSE res(<<env.whisper>>, "done", w.polls, d.attempts)

\* ================================================================ the state

VARIABLES
  interviews,      \* Interview rows: session id -> row
  responses,       \* InterviewResponse rows in insertion order (pk = index)
  results,         \* InterviewResult rows in insertion order
  aggregate_calls, \* session id -> calls of generate_final_recommendation made for it
  trig,            \* session id -> position of its TriggerInterviewView.post
  req,             \* request -> the webhook handler's position and locals
  age,             \* session id -> minutes since the row's created_at
  sweep,           \* the stuck-session sweep: its position and locals
  calls,           \* the calls the voice provider was asked to place
  starts,          \* the invocations of initiate_call and how each ended
  job_descriptions,\* JobDescription rows in insertion order (pk = index)
  generate_calls,  \* requests made to the question-generation provider
  replies,         \* the responses of JDToQuestionsView.post, in order
  scripts,         \* the invocations of _create_interview_twiml and their scripts
  deliveries,      \* request -> the address, form and query it arrived with
  trigger_replies, \* the responses of TriggerInterviewView.post, in order
  service_calls    \* the invocations of _make_request and transcribe_audio

\* The state outside the webhook handlers and the trigger view.
ext == <<age, sweep, calls, starts, job_descriptions, generate_calls, replies,
         scripts, deliveries, trigger_replies, service_calls>>

vars == <<interviews, responses, results, aggregate_calls, trig, req, ext>>

\* Interview (models.py): the fields the handlers read or write.
\* job_description stands for the referenced JobDescription: its number of
\* questions.
NewInterview(n) ==
  [status |-> "pending", twilio_call_sid |-> None, twilio_recording_sid |-> None,
   audio_url |-> None, duration |-> None, completed_at |-> None,
   job_description |-> n]

\* InterviewResponse (models.py) as get_or_create creates it.
NewResponse(pk, question_number, question_text) ==
  [interview |-> pk, question_number |-> question_number,
   question |-> question_text, transcript |-> <<"Processing...">>,
   audio_url |-> None, score |-> None, feedback |-> ""]

NoInterview == [NewInterview(0) EXCEPT !.status = ""]
NoResponse == NewResponse(0, 0, <<>>)

\* A request slot before its request arrives.
IdleReq ==
  [pc |-> "idle", kind |-> "", call_sid |-> None, call_status |-> "",
   recording_url |-> None, recording_sid |-> None, call_duration |-> None,
   interview_id |-> 0, question_number |-> 0, question_text |-> <<>>,
   pk |-> 0, interview |-> NoInterview, answered_questions |-> 0,
   resp_pk |-> 0, response_obj |-> NoResponse, created |-> FALSE,
   stage |-> "", analysis |-> "", wrote |-> "",
   http |-> 0, body |-> ""]

\* The handler has returned: its locals are gone; what it did is kept, with
\* every failure of the transcription as "failed", every failure of the
\* scoring as "failed", and the status of a call reported as failed, busy or
\* unanswered as "failed".
Returned(r, http, body) ==
  [IdleReq EXCEPT !.pc = "done", !.kind = r.kind, !.pk = r.pk,
                  !.call_status = IF r.pc = "cs_failed" THEN "failed" ELSE "",
                  !.question_number = r.question_number,
                  !.created = r.created,
                  !.stage = IF r.stage \in {"", "done"} THEN r.stage ELSE "failed",
                  !.analysis = IF r.analysis \in {"", "scored"} THEN r.analysis
                               ELSE "failed",
                  !.wrote = r.wrote, !.http = http, !.body = body]

\* The sweep before it runs.
IdleSweep == [pc |-> "idle", kind |-> "", todo |-> <<>>, pk |-> 0,
              interview |-> NoInterview, wrote |-> <<>>]

\* timezone.now() as read by request p (0: by the sweep).
Now(p) == Some(<<"now", p>>)

\* ------------------------------------------------------------ the requests
CallStatusValues == {"completed", "failed", "busy", "no-answer", "in-progress"}
GoodRecordingUrl == Some(<<"Accounts", "Recordings", "RE34">>)
BadRecordingUrl == Some(<<"media", "RE12">>)
RecordingUrls == {GoodRecordingUrl, BadRecordingUrl}
QuestionNumbers == 1..(MaxQuestions + 1)

\* request.POST, with the recording reference among urls.
Forms(urls) ==
  [CallStatus : {None} \cup {Some(v) : v \in CallStatusValues},
   RecordingStatus : {None, Some("completed")},
   CallSid : {None, Some(UnknownCallSid)} \cup {Some(CallSidOf(s)) : s \in Sessions},
   RecordingUrl : urls,
   RecordingSid : {Some("RE34")},
   CallDuration : {Some(42)}]

\* request.GET
Queries ==
  [interview_id : Sessions \cup {UnknownId},
   question_number : QuestionNumbers]

\* ------------------------------------------------- TwilioWebhookView.post
\* The routes of urls.py pass no webhook_type, so the type is inferred from
\* the form: a CallStatus field wins over a RecordingStatus field.
WebhookType(form) ==
  IF ~IsNone(form.CallStatus) THEN "call-status"
  ELSE IF ~IsNone(form.RecordingStatus) THEN "record-response"
  ELSE "unknown"

\* Requests are interchangeable: slot p is used after slot p - 1.
NextSlot(p) ==
  /\ req[p].pc = "idle"
  /\ IF p = 1 THEN TRUE ELSE req[p - 1].pc # "idle"

\* The three addresses urls.py routes to TwilioWebhookView.
WebhookPaths ==
  {"webhooks/call-status/", "webhooks/record-response/",
   "webhooks/recording-status/"}

\* No request has arrived in the slot.
NoDelivery == None

\* post: the request is routed by its form alone.
Receive(p, form, query) ==
       LET wt == WebhookType(form)
           r == [IdleReq EXCEPT !.kind = wt]
       IN req' = [req EXCEPT ![p] =
            IF wt = "call-status"
              THEN [r EXCEPT !.pc = "cs_get",
                             !.call_sid = form.CallSid,
                             !.call_status = Get(form.CallStatus),
                             !.recording_url = form.RecordingUrl,
                             !.recording_sid = form.RecordingSid,
                             !.call_duration = form.CallDuration]
            ELSE IF wt = "record-response"
              THEN [r EXCEPT !.pc = "rr_get",
                             !.interview_id = query.interview_id,
                             !.question_number = query.question_number,
                             !.recording_url = form.RecordingUrl]
            ELSE Returned(r, 400, "Invalid webhook type")]

\* A request arrives at one of the addresses.
Post(p, forms) ==
  /\ NextSlot(p)
  /\ \E form \in forms, query \in Queries : Receive(p, form, query)
  /\ UNCHANGED <<interviews, responses, results, aggregate_calls, trig, ext>>

\* A request arrives, and the address, form and query it arrived with are
\* kept.
Deliver(p, forms) ==
  /\ NextSlot(p)
  /\ \E path \in WebhookPaths, form \in forms, query \in Queries :
       /\ Receive(p, form, query)
       /\ deliveries' = [deliveries EXCEPT ![p] =
            Some([path |-> path, form |-> form, query |-> query])]
  /\ UNCHANGED <<interviews, responses, results, aggregate_calls, trig,
                 age, sweep, calls, starts, job_descriptions, generate_calls,
                 replies, scripts, trigger_replies, service_calls>>

\* --------------------------------------------------- handle_call_status
\* Variant: the lookup ignores the call sid.
ByCallSidAny(call_sid) == DOMAIN interviews
\* Interview.objects.get(twilio_call_sid=call_sid): a None argument matches
\* the rows whose column is NULL.
ByCallSid(call_sid) ==
  {s \in DOMAIN interviews : interviews[s].twilio_call_sid = call_sid}

\* InterviewResponse.objects.filter(interview=pk)
ResponsesOf(pk) == {i \in 1..Len(responses) : responses[i].interview = pk}

\* The get, and the return of a status that is not terminal.
CallStatusGet(p) ==
  LET r == req[p]
      found == ByCallSid(r.call_sid)
  IN /\ r.pc = "cs_get"
     /\ req' = [req EXCEPT ![p] =
          IF found = {} THEN Returned(r, 404, "")
          ELSE IF Cardinality(found) > 1 THEN Returned(r, 500, "")
          ELSE LET pk == CHOOSE s \in found : TRUE
                   got == [r EXCEPT !.pk = pk, !.interview = interviews[pk],
                                    !.call_sid = None, !.call_status = ""]
               IN IF r.call_status = "completed" THEN [got EXCEPT !.pc = "cs_count"]
                  ELSE IF r.call_status \in {"failed", "busy", "no-answer"}
                    THEN [got EXCEPT !.pc = "cs_failed"]
                  ELSE Returned(got, 200, "")]
     /\ UNCHANGED <<interviews, responses, results, aggregate_calls, trig, ext>>

CallStatusCount(p) ==
  LET r == req[p]
  IN /\ r.pc = "cs_count"
     /\ req' = [req EXCEPT ![p] =
          [r EXCEPT !.pc = "cs_save",
                    !.answered_questions = Cardinality(ResponsesOf(r.pk))]]
     /\ UNCHANGED <<interviews, responses, results, aggregate_calls, trig, ext>>

\* Variant: a call that completed needs no answer.
AnsweredAny(answered_questions) == answered_questions >= 0
\* Variant: a call that completed needs two answers.
AnsweredTwice(answered_questions) == answered_questions >= 2
\* The threshold on the number of answers for a call that completed.
Answered(answered_questions) == answered_questions >= 1

CallStatusSave(p) ==
  LET r == req[p]
      completed == [r.interview EXCEPT !.status = "completed",
                                       !.audio_url = r.recording_url,
                                       !.twilio_recording_sid = r.recording_sid,
                                       !.duration = r.call_duration,
                                       !.completed_at = Now(p)]
      failed == [r.interview EXCEPT !.status = "failed", !.completed_at = Now(p)]
  IN /\ r.pc = "cs_save"
     /\ IF Answered(r.answered_questions)
          THEN /\ interviews' = [interviews EXCEPT ![r.pk] = completed]
               /\ req' = [req EXCEPT ![p] =
                    [r EXCEPT !.pc = "final", !.interview = NoInterview,
                              !.recording_url = None, !.recording_sid = None,
                              !.call_duration = None, !.answered_questions = 0,
                              !.wrote = "completed"]]
          ELSE /\ interviews' = [interviews EXCEPT ![r.pk] = failed]
               /\ req' = [req EXCEPT ![p] =
                    Returned([r EXCEPT !.wrote = "failed"], 200, "")]
     /\ UNCHANGED <<responses, results, aggregate_calls, trig, ext>>

\* Variant: the status is stored without the completion time.
CallStatusFailedUnstamped(p) ==
  LET r == req[p]
      failed == [r.interview EXCEPT !.status = "failed"]
  IN /\ r.pc = "cs_failed"
     /\ interviews' = [interviews EXCEPT ![r.pk] = failed]
     /\ req' = [req EXCEPT ![p] = Returned([r EXCEPT !.wrote = "failed"], 200, "")]
     /\ UNCHANGED <<responses, results, aggregate_calls, trig, ext>>

\* The branch of a call reported as failed, busy or unanswered.
CallStatusFailed(p) ==
  LET r == req[p]
      failed == [r.interview EXCEPT !.status = "failed", !.completed_at = Now(p)]
  IN /\ r.pc = "cs_failed"
     /\ interviews' = [interviews EXCEPT ![r.pk] = failed]
     /\ req' = [req EXCEPT ![p] = Returned([r EXCEPT !.wrote = "failed"], 200, "")]
     /\ UNCHANGED <<responses, results, aggregate_calls, trig, ext>>

\* ---------------------------------------------- generate_final_results
\* What the provider does with one request of the aggregate evaluation.
FinalBehaviours ==
  {[errors |-> <<>>, text |-> "final_full"],
   [errors |-> <<>>, text |-> "final_empty"],
   [errors |-> <<>>, text |-> "final_nullscore"],
   [errors |-> <<>>, text |-> "not json"],
   [errors |-> <<"permanent">>, text |-> ""]}

\* A value a FloatField (null=False) or a TextField stores.
IsFloat(j) == j.t = "num"
IsText(j) == j.t = "str"

\* InterviewResult.objects.filter(interview=pk)
ResultsOf(pk) == {i \in 1..Len(results) : results[i].interview = pk}

\* The row InterviewResult.objects.create is given.
ResultRow(pk, result_data) ==
  [interview |-> pk,
   overall_score |-> DictGet(result_data, "overall_score", JNum(5)),
   recommendation |-> DictGet(result_data, "recommendation", JStr("Consider")),
   strengths |-> DictGet(result_data, "strengths", JList(<<>>)),
   areas_for_improvement |-> DictGet(result_data, "areas_for_improvement", JList(<<>>))]

\* Variant: the interview column is not unique.
CreateRefusesValue(row) ==
  \/ ~IsFloat(row.overall_score)
  \/ ~IsText(row.recommendation)

\* create raises when a column refuses its value or when the session
\* already has its InterviewResult (the OneToOneField is unique).
CreateRaises(row) ==
  \/ ~IsFloat(row.overall_score)
  \/ ~IsText(row.recommendation)
  \/ ResultsOf(row.interview) # {}

\* The closing script handle_record_response answers with.
ClosingScript == "<Response><Say>Thank you</Say><Hangup/></Response>"

\* Variant: the answer to the recording of a question that is not the last
\* one is a script that asks and records the next question.
RecordReplyNext(question_number, n) ==
  IF question_number < n
    THEN "<Response><Say>Question</Say><Record/></Response>"
  ELSE ClosingScript
\* "End call": the answer of handle_record_response to the recording of
\* question question_number of n, built without looking at either.
RecordReply(question_number, n) == ClosingScript

\* generate_final_results and the handler's return.
GenerateFinalResults(p, finals) ==
  LET r == req[p]
      back == IF r.kind = "record-response"
                THEN Returned(r, 200,
                       RecordReply(r.question_number,
                                   interviews[r.pk].job_description))
                ELSE Returned(r, 200, "")
  IN /\ r.pc = "final"
     /\ req' = [req EXCEPT ![p] = back]
     /\ IF ResponsesOf(r.pk) = {}
          THEN UNCHANGED <<results, aggregate_calls>>
          ELSE \E b \in finals :
                 LET row == ResultRow(r.pk, GenerateFinalRecommendation(b))
                 IN /\ aggregate_calls' =
                         [aggregate_calls EXCEPT ![r.pk] = @ + 1]
                    /\ results' =
                         IF CreateRaises(row) THEN results
                         ELSE Append(results, row)
     /\ UNCHANGED <<interviews, responses, trig, ext>>

\* ------------------------------------------------ handle_record_response
\* questions[question_number - 1] with Python's indexing, or the placeholder;
\* None when the index is out of range (IndexError).
QuestionText(question_number, n) ==
  LET questions == QuestionsOf(n)
      k == question_number - 1
  IN IF question_number <= n
       THEN IF k >= 0 THEN Some(questions[k + 1])
            ELSE IF k >= -n THEN Some(questions[n + k + 1])
            ELSE None
     ELSE Some(<<"Question ", question_number>>)

\* get_object_or_404 and the question text.
RecordGet(p) ==
  LET r == req[p]
  IN /\ r.pc = "rr_get"
     /\ req' = [req EXCEPT ![p] =
          IF r.interview_id \notin DOMAIN interviews
            THEN Returned(r, 500, "Error processing response")
          ELSE LET interview == interviews[r.interview_id]
                   text == QuestionText(r.question_number, interview.job_description)
               IN IF IsNone(text)
                    THEN Returned(r, 500, "Error processing response")
                  ELSE [r EXCEPT !.pc = "rr_get_or_create",
                                 !.pk = r.interview_id,
                                 !.interview_id = 0,
                                 !.interview = interview,
                                 !.question_text = Get(text)]]
     /\ UNCHANGED <<interviews, responses, results, aggregate_calls, trig, ext>>

\* Variant: the get of get_or_create finds nothing.
MatchingNone(pk, question_number) == {}
\* InterviewResponse.objects.filter(interview=pk, question_number=n)
Matching(pk, question_number) ==
  {i \in ResponsesOf(pk) : responses[i].question_number = question_number}

\* The get of get_or_create; on a hit, the save of the audio reference.
RecordGetOrCreate(p) ==
  LET r == req[p]
      found == Matching(r.pk, r.question_number)
  IN /\ r.pc = "rr_get_or_create"
     /\ IF found = {}
          THEN /\ req' = [req EXCEPT ![p] = [r EXCEPT !.pc = "rr_create"]]
               /\ UNCHANGED responses
        ELSE IF Cardinality(found) > 1
          THEN /\ req' = [req EXCEPT ![p] =
                    Returned(r, 500, "Error processing response")]
               /\ UNCHANGED responses
        ELSE LET i == CHOOSE i \in found : TRUE
                 obj == [responses[i] EXCEPT !.audio_url = r.recording_url]
             IN /\ responses' = [responses EXCEPT ![i] = obj]
                /\ req' = [req EXCEPT ![p] =
                     [r EXCEPT !.pc = "rr_transcribe", !.resp_pk = i,
                               !.response_obj = obj]]
     /\ UNCHANGED <<interviews, results, aggregate_calls, trig, ext>>

\* The create of get_or_create (no constraint makes the pair unique), and
\* the save of the audio reference.
GetOrCreateInsert(p) ==
  LET r == req[p]
      obj == [NewResponse(r.pk, r.question_number, r.question_text)
                EXCEPT !.audio_url = r.recording_url]
  IN /\ responses' = Append(responses, obj)
     /\ req' = [req EXCEPT ![p] =
          [r EXCEPT !.pc = "rr_transcribe", !.resp_pk = Len(responses) + 1,
                    !.response_obj = obj, !.created = TRUE]]

RecordCreate(p) ==
  /\ req[p].pc = "rr_create"
  /\ GetOrCreateInsert(p)
  /\ UNCHANGED <<interviews, results, aggregate_calls, trig, ext>>

\* What the providers do during one transcription: the constructor of the
\* service, the first fetch of the recording (its status, or "raise"), the
\* polls of the readiness wait, where the media is, the status of each
\* download attempt ("exc": the request raises) and the speech-to-text call
\* (its text, or "raise").
ReadyEnv ==
  [init |-> "ok", fetch |-> "completed",
   polls |-> [i \in 1..(max_wait \div wait_interval) |-> "completed"],
   media |-> "uri", downloads |-> [i \in 1..download_max_retries |-> "200"],
   whisper |-> "spoken answer"]

TranscribeEnvs ==
  {ReadyEnv,
   [ReadyEnv EXCEPT !.init = "raise"],
   [ReadyEnv EXCEPT !.fetch = "raise"],
   [ReadyEnv EXCEPT !.fetch = "processing",
                    !.polls = [i \in 1..(max_wait \div wait_interval) |-> "processing"]],
   [ReadyEnv EXCEPT !.media = "none"],
   [ReadyEnv EXCEPT !.downloads = [i \in 1..download_max_retries |-> "404"]],
   [ReadyEnv EXCEPT !.whisper = "raise"]}

\* The transcription block: [text, stage] of the transcript it stores.
Transcribe(audio_url, env) ==
  IF env.init = "raise"
    THEN [text |-> <<"Unable to transcribe audio">>, stage |-> "init"]
  ELSE LET t == TranscribeAudio(audio_url, env)
       IN [text |-> t.text, stage |-> t.stage]

\* Variant: a transcription that fails escapes the block, and the handler
\* answers with its error response.
RecordTranscribeUncaught(p, envs) ==
  LET r == req[p]
  IN /\ r.pc = "rr_transcribe"
     /\ \E env \in envs :
          LET t == Transcribe(r.recording_url, env)
              obj == [r.response_obj EXCEPT !.transcript = t.text]
          IN IF t.stage # "done"
               THEN /\ responses' = responses
                    /\ req' = [req EXCEPT ![p] =
                         Returned([r EXCEPT !.stage = t.stage], 500,
                                  "Error processing response")]
             ELSE /\ responses' = [responses EXCEPT ![r.resp_pk] = obj]
                  /\ req' = [req EXCEPT ![p] =
                       [r EXCEPT !.pc = "rr_analyze", !.response_obj = obj,
                                 !.recording_url = None, !.stage = t.stage]]
     /\ UNCHANGED <<interviews, results, aggregate_calls, trig, ext>>

RecordTranscribe(p, envs) ==
  LET r == req[p]
  IN /\ r.pc = "rr_transcribe"
     /\ \E env \in envs :
          LET t == Transcribe(r.recording_url, env)
              obj == [r.response_obj EXCEPT !.transcript = t.text]
          IN /\ responses' = [responses EXCEPT ![r.resp_pk] = obj]
             /\ req' = [req EXCEPT ![p] =
                  [r EXCEPT !.pc = "rr_analyze", !.response_obj = obj,
                            !.recording_url = None, !.stage = t.stage]]
     /\ UNCHANGED <<interviews, results, aggregate_calls, trig, ext>>

\* What the provider does with one request of the per-answer scoring.
AnalysisBehaviours ==
  {[errors |-> <<>>, text |-> "analysis_full"],
   [errors |-> <<>>, text |-> "analysis_outofrange"],
   [errors |-> <<>>, text |-> "analysis_badscore"],
   [errors |-> <<>>, text |-> "not json"],
   [errors |-> <<"permanent">>, text |-> ""]}

\* How the scoring went: "raised" (the provider call failed), "unparsable",
\* "unsaved" (the save refused the values) or "scored".
AnalysisOutcome(b) ==
  LET m == MakeRequest(b)
      a == AnalyzeResponse(b)
  IN IF m.raised THEN "raised"
     ELSE IF ~JsonLoads(m.text).ok THEN "unparsable"
     ELSE IF ~(a.score.t \in {"num", "null"}) \/ ~IsText(a.feedback) THEN "unsaved"
     ELSE "scored"

\* The analysis block: the score and feedback are set on the object and the
\* object is saved; a save that raises is logged and leaves the row as it was.
RecordAnalyze(p, analyses) ==
  LET r == req[p]
  IN /\ r.pc = "rr_analyze"
     /\ \E b \in analyses :
          LET a == AnalyzeResponse(b)
              how == AnalysisOutcome(b)
              obj == [r.response_obj EXCEPT
                        !.score = IF a.score.t = "num" THEN Some(a.score.v) ELSE None,
                        !.feedback = IF IsText(a.feedback) THEN a.feedback.v ELSE ""]
          IN /\ responses' = IF how = "unsaved" THEN responses
                             ELSE [responses EXCEPT ![r.resp_pk] = obj]
             /\ req' = [req EXCEPT ![p] =
                  [r EXCEPT !.pc = "rr_complete", !.response_obj = NoResponse,
                            !.resp_pk = 0, !.question_text = <<>>,
                            !.analysis = how]]
     /\ UNCHANGED <<interviews, results, aggregate_calls, trig, ext>>

\* "Mark interview completed": the save of the handler's copy of the row.
RecordComplete(p) ==
  LET r == req[p]
      completed == [r.interview EXCEPT !.status = "completed",
                                       !.completed_at = Now(p)]
  IN /\ r.pc = "rr_complete"
     /\ interviews' = [interviews EXCEPT ![r.pk] = completed]
     /\ req' = [req EXCEPT ![p] =
          [r EXCEPT !.pc = "final", !.interview = NoInterview,
                    !.wrote = "completed"]]
     /\ UNCHANGED <<responses, results, aggregate_calls, trig, ext>>

\* ------------------------------------- fix_stuck_interviews, FixStuckInterviewView
\* A minute passes.  The handlers do not read the clock, so minutes are let
\* pass between requests, before the sweep reads it.
Tick ==
  /\ sweep.pc = "idle"
  /\ \A p \in Procs : req[p].pc \in {"idle", "done"}
  /\ \A s \in Sessions : trig[s] \in {"idle", "done"}
  /\ DOMAIN interviews # {}
  /\ \A s \in DOMAIN interviews : age[s] < MaxMinutes
  /\ age' = [s \in Sessions |-> IF s \in DOMAIN interviews THEN age[s] + 1 ELSE age[s]]
  /\ UNCHANGED <<interviews, responses, results, aggregate_calls, trig, req,
                 sweep, calls, starts, job_descriptions, generate_calls, replies,
                 scripts, deliveries, trigger_replies, service_calls>>

\* The sessions in increasing order, as a sequence.
RECURSIVE InOrder(_)
InOrder(set) ==
  IF set = {} THEN <<>>
  ELSE LET least == CHOOSE s \in set : \A t \in set : s <= t
       IN <<least>> \o InOrder(set \ {least})

\* filter(status='in_progress', created_at__lt=now - 10 minutes)
Stuck(s) ==
  /\ interviews[s].status = "in_progress"
  /\ age[s] > stuck_minutes

\* The sweep goes on with the next row of its query, or ends.
SweepNext(w, todo) ==
  IF todo = <<>>
    THEN [w EXCEPT !.pc = "done", !.todo = <<>>, !.pk = 0, !.interview = NoInterview]
  ELSE [w EXCEPT !.pc = "exists", !.todo = Tail(todo), !.pk = Head(todo),
                 !.interview = interviews[Head(todo)]]

\* fix_stuck_interviews: the query is evaluated when the loop starts.
SweepQuery ==
  /\ sweep.pc = "idle"
  /\ sweep' = SweepNext([sweep EXCEPT !.kind = "script"],
                        InOrder({s \in DOMAIN interviews : Stuck(s)}))
  /\ UNCHANGED <<interviews, responses, results, aggregate_calls, trig, req,
                 age, calls, starts, job_descriptions, generate_calls, replies,
                 scripts, deliveries, trigger_replies, service_calls>>

\* FixStuckInterviewView.post: get_object_or_404 and the status check.
FixGet(interview_id) ==
  /\ sweep.pc = "idle"
  /\ sweep' =
       IF interview_id \notin DOMAIN interviews
         THEN [sweep EXCEPT !.pc = "done", !.kind = "view"]
       ELSE IF interviews[interview_id].status # "in_progress"
         THEN [sweep EXCEPT !.pc = "done", !.kind = "view", !.pk = interview_id]
       ELSE [sweep EXCEPT !.pc = "exists", !.kind = "view", !.pk = interview_id,
                          !.interview = interviews[interview_id]]
  /\ UNCHANGED <<interviews, responses, results, aggregate_calls, trig, req,
                 age, calls, starts, job_descriptions, generate_calls, replies,
                 scripts, deliveries, trigger_replies, service_calls>>

\* Variant: the responses of the session are not looked at.
SweepExistsIgnored ==
  /\ sweep.pc = "exists"
  /\ sweep' = [sweep EXCEPT !.pc = "save"]
  /\ UNCHANGED <<interviews, responses, results, aggregate_calls, trig, req,
                 age, calls, starts, job_descriptions, generate_calls, replies,
                 scripts, deliveries, trigger_replies, service_calls>>

\* responses.exists()
SweepExists ==
  /\ sweep.pc = "exists"
  /\ sweep' = IF ResponsesOf(sweep.pk) = {}
                THEN [sweep EXCEPT !.pc = "save"]
              ELSE IF sweep.kind = "view"
                THEN [sweep EXCEPT !.pc = "done", !.interview = NoInterview]
              ELSE SweepNext(sweep, sweep.todo)
  /\ UNCHANGED <<interviews, responses, results, aggregate_calls, trig, req,
                 age, calls, starts, job_descriptions, generate_calls, replies,
                 scripts, deliveries, trigger_replies, service_calls>>

\* "Mark as failed": the save of the sweep's copy of the row.
SweepSave ==
  /\ sweep.pc = "save"
  /\ interviews' = [interviews EXCEPT ![sweep.pk] =
       [sweep.interview EXCEPT !.status = "failed",
                               !.completed_at = Now(0)]]
  /\ sweep' = LET w == [sweep EXCEPT !.wrote = Append(@, sweep.pk)]
              IN IF sweep.kind = "view"
                   THEN [w EXCEPT !.pc = "done", !.interview = NoInterview]
                 ELSE SweepNext(w, w.todo)
  /\ UNCHANGED <<responses, results, aggregate_calls, trig, req,
                 age, calls, starts, job_descriptions, generate_calls, replies,
                 scripts, deliveries, trigger_replies, service_calls>>

Sweep ==
  \/ SweepQuery
  \/ \E interview_id \in Sessions \cup {UnknownId} : FixGet(interview_id)
  \/ SweepExists
  \/ SweepSave

\* -------------------------------------- TwilioService._create_interview_twiml
\* A voice script is the sequence of its verbs.
Say(text) == [verb |-> "Say", text |-> text]
Pause == [verb |-> "Pause"]
Hangup == [verb |-> "Hangup"]
\* response.record(max_length=120, play_beep=True, action=record_action_url):
\* the action is the record-response address with its two query parameters.
Record(interview_id, question_number) ==
  [verb |-> "Record", max_length |-> 120, play_beep |-> TRUE,
   path |-> "api/webhooks/record-response/",
   interview_id |-> interview_id, question_number |-> question_number]

Welcome == <<"Hello! Welcome to your automated interview. Let's begin.">>
ThankYou == <<"Thank you for completing the interview. We will review your response and get back to you soon. Goodbye!">>

\* The script of the else branch.
CompletionTwiml == <<Say(ThankYou), Hangup>>
\* The script of the except branch.
FallbackTwiml ==
  <<Say(<<"We're experiencing technical difficulties. Please try again later.">>),
    Hangup>>

\* Variant: the question of every index within the list is asked, with the
\* index in the action of the record step.
CreateInterviewTwimlEvery(interview_id, question_number, questions, voice) ==
  IF voice = "raise" THEN FallbackTwiml
  ELSE IF question_number >= 1 /\ question_number <= Len(questions)
    THEN (IF question_number = 1 THEN <<Say(Welcome), Pause>> ELSE <<>>)
         \o <<Say(<<"Question: ">> \o questions[question_number]), Pause,
              Say(<<"Please provide your answer now.">>),
              Record(interview_id, question_number)>>
  ELSE CompletionTwiml

\* _create_interview_twiml: only question_number 1 is asked, always with the
\* first question and with question_number=1 in the action of the record
\* step; voice tells whether the construction of the script raises.
CreateInterviewTwiml(interview_id, question_number, questions, voice) ==
  IF voice = "raise" THEN FallbackTwiml
  ELSE IF question_number = 1 /\ Len(questions) > 0
    THEN <<Say(Welcome), Pause,
           Say(<<"Question: ">> \o questions[1]), Pause,
           Say(<<"Please provide your answer now.">>),
           Record(interview_id, 1)>>
  ELSE CompletionTwiml

\* One invocation of _create_interview_twiml.
BuildScript ==
  /\ Len(scripts) < MaxScripts
  /\ \E interview_id \in {"1", "2"}, question_number \in 0..(MaxQuestions + 1),
        n \in 0..MaxQuestions, voice \in {"ok", "raise"} :
       scripts' = Append(scripts,
         [interview_id |-> interview_id, question_number |-> question_number,
          questions |-> QuestionsOf(n), voice |-> voice,
          twiml |-> CreateInterviewTwiml(interview_id, question_number,
                                         QuestionsOf(n), voice)])
  /\ UNCHANGED <<interviews, responses, results, aggregate_calls, trig, req,
                 age, sweep, calls, starts, job_descriptions, generate_calls,
                 replies, deliveries, trigger_replies, service_calls>>

\* ------------------------------------------------ TwilioService.initiate_call
\* WHITELISTED_NUMBERS as configured: unset, a text that is no JSON, or a JSON
\* list of numbers.
WhitelistEnvs ==
  {[kind |-> "unset", items |-> {}],
   [kind |-> "invalid", items |-> {}],
   [kind |-> "list", items |-> {}],
   [kind |-> "list", items |-> {"+15550001"}],
   [kind |-> "list", items |-> {"*"}],
   [kind |-> "list", items |-> {"*", "+15550001"}]}

\* os.getenv with its default and json.loads with its fallback: the entries
\* of whitelisted_numbers.
ParseWhitelist(whitelist_env) ==
  IF whitelist_env.kind = "list" THEN whitelist_env.items ELSE {"*"}

\* Variant: every number is allowed.
AllowedAny(whitelisted_numbers, candidate_phone) == TRUE
\* The number may be called.
Allowed(whitelisted_numbers, candidate_phone) ==
  "*" \in whitelisted_numbers \/ candidate_phone \in whitelisted_numbers

\* Variant: the question list is not validated.
ValidateInputsNoQuestions(interview_id, candidate_phone, questions) ==
  IF interview_id = "" THEN "interview_id cannot be empty"
  ELSE IF candidate_phone = "" THEN "candidate_phone cannot be empty"
  ELSE ""
\* "Validate inputs": the message of the ValueError raised, or "".
ValidateInputs(interview_id, candidate_phone, questions) ==
  IF interview_id = "" THEN "interview_id cannot be empty"
  ELSE IF candidate_phone = "" THEN "candidate_phone cannot be empty"
  ELSE IF Len(questions) = 0 THEN "questions list cannot be empty"
  ELSE ""

\* initiate_call: [raised, error, sid, create]; create tells whether
\* client.calls.create was called; provider is the sid it returns, or None
\* when it raises.
InitiateCall(interview_id, candidate_phone, questions, whitelist_env, provider) ==
  LET invalid == ValidateInputs(interview_id, candidate_phone, questions)
      whitelisted_numbers == ParseWhitelist(whitelist_env)
      res(raised, error, sid, create) ==
        [raised |-> raised, error |-> error, sid |-> sid, create |-> create]
  IN IF invalid # "" THEN res(TRUE, invalid, None, FALSE)
     ELSE IF ~Allowed(whitelisted_numbers, candidate_phone)
       THEN res(TRUE, "Phone number is not whitelisted", None, FALSE)
     ELSE IF IsNone(provider)
       THEN res(TRUE, "provider error", None, TRUE)
     ELSE res(FALSE, "", provider, TRUE)

\* One invocation of initiate_call; the provider's answer to the n-th call it
\* is asked to place is the sid <<"CA", n>>, or an error.
Start ==
  /\ Len(starts) < MaxStarts
  /\ \E interview_id \in {"", "1"},
        candidate_phone \in {"", "+15550001", "+15550002"},
        n \in 0..MaxQuestions,
        whitelist_env \in WhitelistEnvs,
        provider \in {None, Some(CallSidOf(Len(calls) + 1))},
        voice \in {"ok", "raise"} :
       LET r == InitiateCall(interview_id, candidate_phone, QuestionsOf(n),
                             whitelist_env, provider)
       IN /\ starts' = Append(starts,
               [interview_id |-> interview_id, candidate_phone |-> candidate_phone,
                questions |-> QuestionsOf(n), whitelist_env |-> whitelist_env,
                raised |-> r.raised, error |-> r.error, sid |-> r.sid])
          /\ calls' = IF r.create
                        THEN Append(calls,
                               [to |-> candidate_phone, sid |-> provider,
                                twiml |-> CreateInterviewTwiml(
                                  interview_id, 1, QuestionsOf(n), voice)])
                        ELSE calls
  /\ UNCHANGED <<interviews, responses, results, aggregate_calls, trig, req,
                 age, sweep, job_descriptions, generate_calls, replies,
                 scripts, deliveries, trigger_replies, service_calls>>

\* ------------------------------------------------ TriggerInterviewView.post
\* Candidate.phone of the candidate of the request.
Phones == {"", "+15550001", "+15550002"}
\* WHITELISTED_NUMBERS is not set.
WhitelistUnset == [kind |-> "unset", items |-> {}]

\* str(interview.id)
IdText(s) == CASE s = 1 -> "1" [] s = 2 -> "2" [] OTHER -> "3"

\* The response of the view; session is the row the request created (0: none).
TriggerReply(http, error, session, call_sid) ==
  [http |-> http, error |-> error, session |-> session, call_sid |-> call_sid]

\* Interview.objects.create(status='pending') for a job description with n
\* questions.  Sessions are interchangeable: s is created after s - 1.
TriggerCreate(s) ==
  /\ trig[s] = "idle"
  /\ IF s = 1 THEN TRUE ELSE trig[s - 1] # "idle"
  /\ \E n \in 0..MaxQuestions :
       interviews' = [t \in DOMAIN interviews \cup {s} |->
                        IF t = s THEN NewInterview(n) ELSE interviews[t]]
  /\ trig' = [trig EXCEPT ![s] = "created"]
  /\ UNCHANGED <<responses, results, aggregate_calls, req, ext>>

\* The call the view asks initiate_call to place for session s.
TriggerCall(s, candidate_phone, whitelist_env, provider) ==
  InitiateCall(IdText(s), candidate_phone,
               QuestionsOf(interviews[s].job_description), whitelist_env, provider)

\* What client.calls.create was given, when it was called.
TriggerCalls(s, r, candidate_phone, provider) ==
  IF r.create
    THEN Append(calls,
           [to |-> candidate_phone, sid |-> provider,
            twiml |-> CreateInterviewTwiml(
              IdText(s), 1, QuestionsOf(interviews[s].job_description), "ok")])
  ELSE calls

\* initiate_call returns the sid of the call the provider accepted.
TriggerCallPlaced(s, phones, envs) ==
  /\ trig[s] = "created"
  /\ \E candidate_phone \in phones, whitelist_env \in envs :
       LET provider == Some(CallSidOf(s))
           r == TriggerCall(s, candidate_phone, whitelist_env, provider)
       IN /\ ~r.raised
          /\ calls' = TriggerCalls(s, r, candidate_phone, provider)
  /\ trig' = [trig EXCEPT ![s] = "placed"]
  /\ UNCHANGED <<interviews, responses, results, aggregate_calls, req,
                 age, sweep, starts, job_descriptions, generate_calls, replies,
                 scripts, deliveries, trigger_replies, service_calls>>

\* Variant: the view reports the error and leaves the row as it created it.
TriggerCallRaisesUnsaved(s, phones, envs) ==
  /\ trig[s] = "created"
  /\ \E candidate_phone \in phones, whitelist_env \in envs,
        provider \in {None, Some(CallSidOf(s))} :
       LET r == TriggerCall(s, candidate_phone, whitelist_env, provider)
       IN /\ r.raised
          /\ calls' = TriggerCalls(s, r, candidate_phone, provider)
          /\ trigger_replies' =
               Append(trigger_replies, TriggerReply(500, r.error, s, None))
  /\ trig' = [trig EXCEPT ![s] = "done"]
  /\ UNCHANGED <<interviews, responses, results, aggregate_calls, req,
                 age, sweep, starts, job_descriptions, generate_calls, replies,
                 scripts, deliveries, service_calls>>

\* initiate_call raises (an input or the number is refused, or the provider
\* fails): the view saves its copy of the row, the one it created, as failed
\* (in the inner and again in the outer handler) and answers 500 with the
\* error.
TriggerCallRaises(s, phones, envs) ==
  /\ trig[s] = "created"
  /\ \E candidate_phone \in phones, whitelist_env \in envs,
        provider \in {None, Some(CallSidOf(s))} :
       LET r == TriggerCall(s, candidate_phone, whitelist_env, provider)
       IN /\ r.raised
          /\ calls' = TriggerCalls(s, r, candidate_phone, provider)
          /\ trigger_replies' =
               Append(trigger_replies, TriggerReply(500, r.error, s, None))
  /\ interviews' = [interviews EXCEPT ![s] =
       [NewInterview(interviews[s].job_description) EXCEPT !.status = "failed"]]
  /\ trig' = [trig EXCEPT ![s] = "done"]
  /\ UNCHANGED <<responses, results, aggregate_calls, req,
                 age, sweep, starts, job_descriptions, generate_calls, replies,
                 scripts, deliveries, service_calls>>

\* The view saves its copy of the row with the call sid, as in_progress, and
\* answers 200 with the call sid.
TriggerSave(s) ==
  /\ trig[s] = "placed"
  /\ interviews' = [interviews EXCEPT ![s] =
       [NewInterview(interviews[s].job_description) EXCEPT
          !.status = "in_progress", !.twilio_call_sid = Some(CallSidOf(s))]]
  /\ trigger_replies' =
       Append(trigger_replies, TriggerReply(200, "", s, Some(CallSidOf(s))))
  /\ trig' = [trig EXCEPT ![s] = "done"]
  /\ UNCHANGED <<responses, results, aggregate_calls, req,
                 age, sweep, calls, starts, job_descriptions, generate_calls,
                 replies, scripts, deliveries, service_calls>>

\* A request the view answers before it creates a row: the serializer
\* refuses the body (400), or get_object_or_404 finds no candidate or no job
\* description and the Http404 is caught by the outer handler (500).
TriggerReject ==
  /\ Cardinality({i \in 1..Len(trigger_replies) :
                    trigger_replies[i].session = 0}) < MaxRejects
  /\ \E reply \in {TriggerReply(400, "serializer.errors", 0, None),
                   TriggerReply(500, "No Candidate matches the given query.", 0, None),
                   TriggerReply(500, "No JobDescription matches the given query.", 0, None)} :
       trigger_replies' = Append(trigger_replies, reply)
  /\ UNCHANGED <<interviews, responses, results, aggregate_calls, trig, req,
                 age, sweep, calls, starts, job_descriptions, generate_calls,
                 replies, scripts, deliveries, service_calls>>

\* ------------------------------------- OpenAIService.generate_questions_from_jd
\* What the provider does with one request for questions.  The texts: a JSON
\* list of five questions, the JSON list [], the list inside a ```json fence,
\* a JSON object, and the questions as plain lines.
QuestionBehaviours ==
  {[errors |-> e, text |-> "questions_list"] :
     e \in {<<>>, <<"transient">>, <<"transient", "transient">>}}
  \cup {[errors |-> <<>>, text |-> t] :
          t \in {"questions_empty", "questions_fenced", "questions_object",
                 "questions_lines"}}
  \cup {[errors |-> e, text |-> ""] :
          e \in {<<"permanent">>, <<"transient", "permanent">>,
                 <<"transient", "transient", "transient">>}}

FallbackQuestions ==
  <<"Can you tell me about your relevant experience for this role?",
    "What are your key strengths that would make you successful in this position?",
    "Describe a challenging project you worked on and how you handled it.",
    "What interests you most about this opportunity?",
    "Where do you see yourself professionally in the next few years?">>

\* clean_questions: the entries that are empty or "json" are dropped.
IsQuestion(q) == q \notin {"", "json", "JSON"}
CleanQuestions(raw_questions) == SelectSeq(raw_questions, IsQuestion)

\* The slice [:1] of a list.
FirstOnly(list) == SubSeq(list, 1, IF Len(list) >= 1 THEN 1 ELSE 0)

\* The questions read from the provider's text: json.loads, or on a
\* JSONDecodeError the lines of the text; sliceable tells whether the value
\* is a list.
ParseQuestions(text) ==
  CASE text = "questions_list" ->
         [sliceable |-> TRUE, questions |-> <<"Q1", "Q2", "Q3", "Q4", "Q5">>]
    [] text = "questions_empty" ->
         [sliceable |-> TRUE, questions |-> <<>>]
    [] text = "questions_fenced" ->
         [sliceable |-> TRUE, questions |-> <<"json", "Q1", "Q2">>]
    [] text = "questions_object" ->
         [sliceable |-> FALSE, questions |-> <<>>]
    [] OTHER ->
         [sliceable |-> TRUE, questions |-> <<"Q1", "Q2">>]

\* Variant: a provider failure is raised to the caller.
GenerateQuestionsNoFallback(b) ==
  LET r == MakeRequest(b)
      parsed == ParseQuestions(r.text)
  IN IF r.raised \/ ~parsed.sliceable
       THEN [raised |-> TRUE, questions |-> <<>>]
     ELSE [raised |-> FALSE,
           questions |-> CleanQuestions(FirstOnly(parsed.questions))]

\* generate_questions_from_jd: [raised, questions].
GenerateQuestionsFromJd(b) ==
  LET r == MakeRequest(b)
      parsed == ParseQuestions(r.text)
  IN IF r.raised \/ ~parsed.sliceable
       THEN [raised |-> FALSE,
             questions |-> CleanQuestions(FirstOnly(FallbackQuestions))]
     ELSE [raised |-> FALSE,
           questions |-> CleanQuestions(FirstOnly(parsed.questions))]

\* --------------------------------------------------- JDToQuestionsView.post
\* str.lower on the texts of the model.
Lower(text) ==
  CASE text = "Dev" -> "dev"
    [] text = "Build" -> "build"
    [] OTHER -> text

\* filter(title__iexact, description__iexact): the pks that match.
ExistingJd(title, description) ==
  {i \in 1..Len(job_descriptions) :
     /\ Lower(job_descriptions[i].title) = Lower(title)
     /\ Lower(job_descriptions[i].description) = Lower(description)}

\* Variant: the lookup finds nothing.
FirstExistingNone(title, description) == None
\* .first(): the row of the least pk, or None.
FirstExisting(title, description) ==
  LET found == ExistingJd(title, description)
  IN IF found = {} THEN None
     ELSE Some(CHOOSE i \in found : \A j \in found : i <= j)

\* One submission, handled from the request to the response.
SubmitJd ==
  /\ Len(replies) < MaxSubmissions
  /\ \E title \in {"", "Dev", "dev", "Ops"}, description \in {"", "Build", "build"},
        b \in QuestionBehaviours :
       LET existing_jd == FirstExisting(title, description)
           g == GenerateQuestionsFromJd(b)
           reply(http, id, questions, provider) ==
             [status |-> http, id |-> id, questions |-> questions,
              title |-> title, description |-> description, provider |-> provider]
       IN IF title = "" \/ description = ""
            THEN /\ replies' = Append(replies, reply(400, None, <<>>, None))
                 /\ UNCHANGED <<job_descriptions, generate_calls>>
          ELSE IF ~IsNone(existing_jd)
            THEN /\ replies' = Append(replies,
                       reply(200, existing_jd,
                             job_descriptions[Get(existing_jd)].questions, None))
                 /\ UNCHANGED <<job_descriptions, generate_calls>>
          ELSE IF g.raised
            THEN /\ replies' = Append(replies, reply(500, None, <<>>, Some(b)))
                 /\ generate_calls' = generate_calls + MakeRequest(b).attempts
                 /\ UNCHANGED job_descriptions
          ELSE /\ job_descriptions' = Append(job_descriptions,
                     [title |-> title, description |-> description,
                      questions |-> g.questions])
               /\ generate_calls' = generate_calls + MakeRequest(b).attempts
               /\ replies' = Append(replies,
                     reply(201, Some(Len(job_descriptions) + 1), g.questions, Some(b)))
  /\ UNCHANGED <<interviews, responses, results, aggregate_calls, trig, req,
                 age, sweep, calls, starts, scripts, deliveries, trigger_replies, service_calls>>

\* ------------------------------------- the two services, invoked on their own
\* What the provider does with one request: the errors of up to four
\* successive attempts, then a text.
RECURSIVE ErrorLists(_)
ErrorLists(n) ==
  IF n = 0 THEN {<<>>}
  ELSE LET shorter == ErrorLists(n - 1)
       IN shorter \cup {Append(e, x) : e \in {l \in shorter : Len(l) = n - 1},
                                       x \in {"transient", "permanent"}}

RequestBehaviours ==
  {[errors |-> e, text |-> "analysis_full"] : e \in ErrorLists(max_retries + 1)}

\* What the providers do during one transcription, with the answers to more
\* re-checks than the wait makes; "400": a download answered with an error
\* status other than 404.
LongPolls(status) == [i \in 1..(2 * (max_wait \div wait_interval)) |-> status]
ServiceEnvs ==
  {[ReadyEnv EXCEPT !.fetch = f, !.polls = p, !.downloads = d] :
     f \in {"completed", "processing", "raise"},
     p \in {LongPolls("completed"), LongPolls("processing"), LongPolls("raise"),
            [LongPolls("completed") EXCEPT ![1] = "raise", ![2] = "processing"]},
     d \in {[i \in 1..download_max_retries |-> st] :
              st \in {"200", "404", "400", "exc"}}
           \cup {[[i \in 1..download_max_retries |-> "200"] EXCEPT ![1] = st] :
                   st \in {"404", "400"}}}

\* One invocation of _make_request.
RequestCall ==
  /\ Len(service_calls) < MaxServiceCalls
  /\ \E b \in RequestBehaviours :
       LET r == MakeRequest(b)
       IN service_calls' = Append(service_calls,
            [op |-> "_make_request", errors |-> b.errors, raised |-> r.raised,
             attempts |-> r.attempts])
  /\ UNCHANGED <<interviews, responses, results, aggregate_calls, trig, req,
                 age, sweep, calls, starts, job_descriptions, generate_calls,
                 replies, scripts, deliveries, trigger_replies>>

\* One invocation of transcribe_audio.
TranscribeCall ==
  /\ Len(service_calls) < MaxServiceCalls
  /\ \E audio_url \in RecordingUrls, env \in ServiceEnvs :
       LET t == TranscribeAudio(audio_url, env)
       IN service_calls' = Append(service_calls,
            [op |-> "transcribe_audio", audio_url |-> audio_url, env |-> env,
             text |-> t.text, stage |-> t.stage, polls |-> t.polls,
             downloads |-> t.downloads])
  /\ UNCHANGED <<interviews, responses, results, aggregate_calls, trig, req,
                 age, sweep, calls, starts, job_descriptions, generate_calls,
                 replies, scripts, deliveries, trigger_replies>>

\* ------------------------------------------------------ the specification
Init ==
  /\ interviews = <<>>
  /\ responses = <<>>
  /\ results = <<>>
  /\ aggregate_calls = [s \in Sessions |-> 0]
  /\ trig = [s \in Sessions |-> "idle"]
  /\ req = [p \in Procs |-> IdleReq]
  /\ age = [s \in Sessions |-> 0]
  /\ sweep = IdleSweep
  /\ calls = <<>>
  /\ starts = <<>>
  /\ job_descriptions = <<>>
  /\ generate_calls = 0
  /\ replies = <<>>
  /\ scripts = <<>>
  /\ deliveries = [p \in Procs |-> NoDelivery]
  /\ trigger_replies = <<>>
  /\ service_calls = <<>>

\* The view, for candidates with the numbers phones and the configurations
\* envs of the allow-list.
TriggerWith(phones, envs) ==
  \E s \in Sessions :
    \/ TriggerCreate(s)
    \/ TriggerCallPlaced(s, phones, envs)
    \/ TriggerCallRaises(s, phones, envs)
    \/ TriggerSave(s)

\* The view, for a candidate whose number may be called.
Trigger == TriggerWith({"+15550001"}, {WhitelistUnset})

\* The handlers' steps, with what the providers may do.
Handle(p, envs, analyses, finals) ==
  \/ CallStatusGet(p)
  \/ CallStatusCount(p)
  \/ CallStatusSave(p)
  \/ CallStatusFailed(p)
  \/ RecordGet(p)
  \/ RecordGetOrCreate(p)
  \/ RecordCreate(p)
  \/ RecordTranscribe(p, envs)
  \/ RecordAnalyze(p, analyses)
  \/ RecordComplete(p)
  \/ GenerateFinalResults(p, finals)

\* Spec: requests are handled concurrently; each provider either works or
\* fails in one way.
DownloadFailsEnv == [ReadyEnv EXCEPT !.downloads = [i \in 1..download_max_retries |-> "404"]]
WorksOrFails(behaviours) ==
  {b \in behaviours : b.text \in {"analysis_full", "final_full", "final_nullscore"}
                      \/ b.errors # <<>>}

Next ==
  \/ Trigger
  \/ \E p \in Procs :
       \/ Post(p, Forms({GoodRecordingUrl}))
       \/ Handle(p, {ReadyEnv, DownloadFailsEnv},
                 WorksOrFails(AnalysisBehaviours), WorksOrFails(FinalBehaviours))

Spec == Init /\ [][Next]_vars

\* SpecSeq: one request is handled at a time; every stage of a transcription
\* may fail, and a recording reference may hold no recording sid.
NoneInFlight == \A q \in Procs : req[q].pc \in {"idle", "done"}

NextSeq ==
  \/ Trigger
  \/ \E p \in Procs :
       \/ NoneInFlight /\ Post(p, Forms(RecordingUrls))
       \/ Handle(p, TranscribeEnvs,
                 WorksOrFails(AnalysisBehaviours), WorksOrFails(FinalBehaviours))

SpecSeq == Init /\ [][NextSeq]_vars

\* ================================================================ the claims

\* C1: once a session's status is completed or failed, no step of a callback
\* handler changes it.
C1_TerminalImmutable ==
  [][req' # req =>
       \A s \in DOMAIN interviews :
         interviews[s].status \in {"completed", "failed"}
           => interviews'[s].status = interviews[s].status]_vars

\* C2: under concurrent recording callbacks, no two ResponseRecords have the
\* same session and question number.
C2_AtMostOneRecord ==
  \A i, j \in 1..Len(responses) :
    (/\ responses[i].interview = responses[j].interview
     /\ responses[i].question_number = responses[j].question_number) => i = j

\* C3: with recording callbacks delivered one after the other, a session and
\* question number never have two ResponseRecords; a callback that has answered
\* leaves exactly one; and a step inserts a record only for a pair that has
\* none and changes of an existing record nothing but its audio reference,
\* transcript, score and feedback.
C3_Idempotent ==
  /\ [](\A s \in Sessions, n \in QuestionNumbers :
          Cardinality({i \in 1..Len(responses) :
                         /\ responses[i].interview = s
                         /\ responses[i].question_number = n}) <= 1)
  /\ [](\A p \in Procs :
          (req[p].pc = "done" /\ req[p].kind = "record-response" /\ req[p].http = 200)
            => Cardinality({i \in 1..Len(responses) :
                              /\ responses[i].interview = req[p].pk
                              /\ responses[i].question_number = req[p].question_number}) = 1)
  /\ [][/\ Len(responses') \in {Len(responses), Len(responses) + 1}
        /\ \A i \in 1..Len(responses) :
             /\ responses'[i].interview = responses[i].interview
             /\ responses'[i].question_number = responses[i].question_number
             /\ responses'[i].question = responses[i].question
        /\ Len(responses') > Len(responses) =>
             \A i \in 1..Len(responses) :
               \/ responses[i].interview # responses'[Len(responses')].interview
               \/ responses[i].question_number #
                    responses'[Len(responses')].question_number]_vars

\* C3: the same recording callback has been answered twice; the second one
\* created nothing and the pair has one record.
C3_Witness ==
  \E p, q \in Procs :
    /\ p # q
    /\ req[p].pc = "done" /\ req[q].pc = "done"
    /\ req[p].kind = "record-response" /\ req[q].kind = "record-response"
    /\ req[p].http = 200 /\ req[q].http = 200
    /\ req[p].pk = req[q].pk
    /\ req[p].question_number = req[q].question_number
    /\ req[p].created /\ ~req[q].created
    /\ Cardinality({i \in 1..Len(responses) :
                      /\ responses[i].interview = req[p].pk
                      /\ responses[i].question_number = req[p].question_number}) = 1

C5_ThresholdIsN ==
  [][\A p \in Procs :
       (/\ req[p].pc = "cs_save" /\ req'[p].pc # "cs_save"
        /\ interviews[req[p].pk].status = "in_progress")
         => interviews'[req[p].pk].status =
              IF req[p].answered_questions >= interviews[req[p].pk].job_description
                THEN "completed" ELSE "failed"]_vars

\* C5: a call-status callback with status completed makes the session
\* completed exactly when the number of answers it counted is at least 1, and
\* failed otherwise.
C5_ThresholdIsOne ==
  [][\A p \in Procs :
       (req[p].pc = "cs_save" /\ req'[p].pc # "cs_save")
         => interviews'[req[p].pk].status =
              IF req[p].answered_questions >= 1 THEN "completed" ELSE "failed"]_vars

\* C5: a call-status callback has completed a session whose job description
\* has two questions and which has one answer.
C5_Witness ==
  \E p \in Procs :
    /\ req[p].pc = "done" /\ req[p].kind = "call-status"
    /\ req[p].wrote = "completed"
    /\ interviews[req[p].pk].job_description = 2
    /\ interviews[req[p].pk].status = "completed"
    /\ Cardinality({i \in 1..Len(responses) : responses[i].interview = req[p].pk}) = 1

\* C6: the aggregate evaluation is called at most once for a session.
C6_AggregateOnce == \A s \in Sessions : aggregate_calls[s] <= 1

\* C7: a session that has an InterviewResult is completed and has a
\* ResponseRecord.
C7_ResultOnlyIfCompleted ==
  \A i \in 1..Len(results) :
    /\ interviews[results[i].interview].status = "completed"
    /\ \E j \in 1..Len(responses) : responses[j].interview = results[i].interview

\* C8: when the handler that made a session completed has returned, the
\* session has an InterviewResult.
C8_CompletedHasResult ==
  \A p \in Procs :
    (req[p].pc = "done" /\ req[p].wrote = "completed")
      => \E i \in 1..Len(results) : results[i].interview = req[p].pk

\* C9: a recording callback whose transcription or scoring failed has
\* answered 200 with the closing script, and the record of its question
\* exists.
C9_ValidScript ==
  \A p \in Procs :
    (/\ req[p].pc = "done" /\ req[p].kind = "record-response"
     /\ (req[p].stage = "failed" \/ req[p].analysis = "failed"))
      => /\ req[p].http = 200
         /\ req[p].body = "<Response><Say>Thank you</Say><Hangup/></Response>"
         /\ \E i \in 1..Len(responses) :
              /\ responses[i].interview = req[p].pk
              /\ responses[i].question_number = req[p].question_number

\* C9: a recording callback whose transcription and scoring both failed has
\* answered 200.
C9_Witness ==
  \E p \in Procs :
    /\ req[p].pc = "done" /\ req[p].kind = "record-response"
    /\ req[p].stage = "failed" /\ req[p].analysis = "failed"
    /\ req[p].http = 200

\* C10: the transcription step of the recording callback always hands over
\* to the scoring step, and when a stage of transcribe_audio failed the
\* stored transcript is the returned string, which begins with
\* "Transcription failed: ".
C10_FailedTranscript ==
  [][\A p \in Procs :
       (req[p].pc = "rr_transcribe" /\ req'[p] # req[p])
         => /\ req'[p].pc = "rr_analyze"
            /\ req'[p].stage \in {"extract", "fetch", "wait", "media",
                                  "download", "whisper"}
                 => /\ responses'[req'[p].resp_pk].transcript[1] =
                         "Transcription failed: "
                    /\ responses'[req'[p].resp_pk].transcript =
                         req'[p].response_obj.transcript
                    /\ Len(req'[p].response_obj.transcript) > 1]_vars

\* C10: the downloads of a recording were exhausted and the record's
\* transcript begins with "Transcription failed: ".
C10_Witness ==
  \E p \in Procs :
    /\ req[p].pc = "rr_analyze" /\ req[p].stage = "download"
    /\ responses[req[p].resp_pk].transcript[1] = "Transcription failed: "

\* C11: a call-status callback whose call sid is the twilio_call_sid of no
\* session is answered 404 and changes no session, ResponseRecord or
\* InterviewResult.
C11_UnknownCallSid ==
  [][\A p \in Procs :
       (/\ req[p].pc = "cs_get" /\ req'[p] # req[p]
        /\ \A s \in DOMAIN interviews :
             interviews[s].twilio_call_sid # req[p].call_sid)
         => /\ req'[p].pc = "done" /\ req'[p].http = 404
            /\ interviews' = interviews
            /\ responses' = responses
            /\ results' = results]_vars

\* C11: a call-status callback for a call sid that no session holds has been
\* answered 404 while a session exists.
C11_Witness ==
  \E p \in Procs :
    /\ req[p].pc = "done" /\ req[p].kind = "call-status" /\ req[p].http = 404
    /\ DOMAIN interviews # {}
    /\ \A s \in DOMAIN interviews : interviews[s].twilio_call_sid # None

\* C12: a recording callback whose interview_id is the id of no session is
\* answered 404 and changes no session, ResponseRecord or InterviewResult.
C12_UnknownSession ==
  [][\A p \in Procs :
       (/\ req[p].pc = "rr_get" /\ req'[p] # req[p]
        /\ req[p].interview_id \notin DOMAIN interviews)
         => /\ req'[p].pc = "done" /\ req'[p].http = 404
            /\ interviews' = interviews
            /\ responses' = responses
            /\ results' = results]_vars

\* SpecStart: initiate_call is invoked with every input and configuration.
NextStart == Start

SpecStart == Init /\ [][NextStart]_vars

\* C13: an invocation of initiate_call with valid inputs, a configured list
\* without "*" and a number that is not in the list raises the whitelist
\* error and asks the provider for no call; with "*" in the list the provider
\* is asked to call the number.
C13_AllowList ==
  [][starts' # starts =>
       LET a == starts'[Len(starts')]
           valid == a.interview_id # "" /\ a.candidate_phone # "" /\ Len(a.questions) > 0
           listed == a.whitelist_env.kind = "list"
       IN /\ (/\ valid /\ listed
              /\ "*" \notin a.whitelist_env.items
              /\ a.candidate_phone \notin a.whitelist_env.items)
               => /\ a.raised /\ a.error = "Phone number is not whitelisted"
                  /\ calls' = calls
          /\ (valid /\ listed /\ "*" \in a.whitelist_env.items)
               => /\ Len(calls') = Len(calls) + 1
                  /\ calls'[Len(calls')].to = a.candidate_phone]_vars

\* C13: initiate_call was invoked twice with the same number that the
\* configured list does not hold; both invocations raised the whitelist error
\* and no call was asked for.
C13_Witness ==
  /\ Len(starts) = 2
  /\ calls = <<>>
  /\ starts[1].candidate_phone = "+15550002"
  /\ starts[2].candidate_phone = "+15550002"
  /\ \A i \in 1..2 :
       /\ starts[i].whitelist_env = [kind |-> "list", items |-> {"+15550001"}]
       /\ starts[i].raised
       /\ starts[i].error = "Phone number is not whitelisted"

\* C14: an invocation of initiate_call with an empty interview id, an empty
\* phone number or an empty question list raises the ValueError of the first
\* of them that is empty and asks the provider for no call.
C14_Precondition ==
  [][starts' # starts =>
       LET a == starts'[Len(starts')]
       IN (a.interview_id = "" \/ a.candidate_phone = "" \/ Len(a.questions) = 0)
            => /\ a.raised
               /\ a.error = IF a.interview_id = "" THEN "interview_id cannot be empty"
                            ELSE IF a.candidate_phone = ""
                              THEN "candidate_phone cannot be empty"
                            ELSE "questions list cannot be empty"
               /\ calls' = calls]_vars

\* C14: initiate_call was invoked with an empty question list for a number
\* that may be called; it raised and no call was asked for.
C14_Witness ==
  \E i \in 1..Len(starts) :
    /\ starts[i].interview_id # "" /\ starts[i].candidate_phone # ""
    /\ Len(starts[i].questions) = 0
    /\ "*" \in ParseWhitelist(starts[i].whitelist_env)
    /\ starts[i].raised /\ starts[i].error = "questions list cannot be empty"
    /\ calls = <<>>

\* SpecJd: job descriptions are submitted one after the other, with every
\* behaviour of the question-generation provider.
NextJd == SubmitJd

SpecJd == Init /\ [][NextJd]_vars

NextSweep ==
  \/ Trigger
  \/ Tick
  \/ Sweep
  \/ Post(1, Forms({GoodRecordingUrl}))
  \/ Handle(1, {ReadyEnv}, WorksOrFails(AnalysisBehaviours),
            WorksOrFails(FinalBehaviours))

SpecSweep == Init /\ [][NextSweep]_vars

\* SpecSweepAlone: the sweep runs on its own, from its query to its end.
SweepAtRest == sweep.pc \in {"idle", "done"}
AllAtRest ==
  /\ \A p \in Procs : req[p].pc \in {"idle", "done"}
  /\ \A s \in Sessions : trig[s] \in {"idle", "done"}

NextSweepAlone ==
  \/ SweepAtRest /\ Trigger
  \/ Tick
  \/ AllAtRest /\ Sweep
  \/ SweepAtRest /\ Post(1, Forms({GoodRecordingUrl}))
  \/ Handle(1, {ReadyEnv}, WorksOrFails(AnalysisBehaviours),
            WorksOrFails(FinalBehaviours))

SpecSweepAlone == Init /\ [][NextSweepAlone]_vars

\* C16: run on its own, the sweep changes a session only from in_progress
\* with no ResponseRecord to failed, and when the script ends no session that
\* has been in_progress for more than 15 minutes without a ResponseRecord is
\* left; the view leaves no such session under the id it was given.
C16_SweepAlone ==
  /\ [][sweep' # sweep =>
          \A s \in DOMAIN interviews :
            interviews'[s] # interviews[s]
              => /\ interviews[s].status = "in_progress"
                 /\ ~\E i \in 1..Len(responses) : responses[i].interview = s
                 /\ interviews'[s].status = "failed"]_vars
  /\ [][(sweep.pc # "done" /\ sweep'.pc = "done") =>
          \A s \in DOMAIN interviews' :
            (/\ sweep'.kind = "view" => sweep'.pk = s
             /\ interviews'[s].status = "in_progress"
             /\ age'[s] > 15)
              => \E i \in 1..Len(responses') : responses'[i].interview = s]_vars

\* C16: the script has ended after marking failed a session that was
\* in_progress for more than 15 minutes without a ResponseRecord.
C16_Witness ==
  /\ sweep.pc = "done" /\ sweep.kind = "script"
  /\ sweep.wrote = <<1>>
  /\ age[1] > 15
  /\ interviews[1].status = "failed"
  /\ ~\E i \in 1..Len(responses) : responses[i].interview = 1

\* C17: when the sweep sets a session to failed, the session has no
\* ResponseRecord.
C17_SweepRace ==
  [][sweep' # sweep =>
       \A s \in DOMAIN interviews :
         (interviews'[s] # interviews[s] /\ interviews'[s].status = "failed")
           => ~\E i \in 1..Len(responses) : responses[i].interview = s]_vars

\* SpecHappy: callbacks arrive when no trigger is under way, they are handled
\* one after the other and every provider works: the recording is ready, the
\* scoring and the aggregate evaluation return what their prompts ask for.
TriggersAtRest == \A s \in Sessions : trig[s] \in {"idle", "done"}

NextHappy ==
  \/ Trigger
  \/ \E p \in Procs :
       \/ NoneInFlight /\ TriggersAtRest /\ Post(p, Forms({GoodRecordingUrl}))
       \/ Handle(p, {ReadyEnv},
                 {b \in AnalysisBehaviours : b.text = "analysis_full"},
                 {b \in FinalBehaviours : b.text = "final_full"})

SpecHappy == Init /\ [][NextHappy]_vars

\* SpecOutcomes: one request is handled, with every outcome of every
\* provider.
NextOutcomes ==
  \/ Trigger
  \/ Post(1, Forms(RecordingUrls))
  \/ Handle(1, TranscribeEnvs, AnalysisBehaviours, FinalBehaviours)

SpecOutcomes == Init /\ [][NextOutcomes]_vars

C20_ScoreRange ==
  \A i \in 1..Len(responses) :
    responses[i].score # None => Get(responses[i].score) \in 0..10

\* SpecScript: _create_interview_twiml is invoked with every question number
\* and every number of questions.
NextScript == BuildScript

SpecScript == Init /\ [][NextScript]_vars

\* The record steps of a script, and what it says.
RecordSteps(twiml) == {i \in 1..Len(twiml) : twiml[i].verb = "Record"}
Says(twiml, text) == \E i \in 1..Len(twiml) : twiml[i] = Say(text)
IsClosing(twiml) ==
  /\ RecordSteps(twiml) = {}
  /\ Says(twiml, ThankYou)
  /\ twiml[Len(twiml)] = Hangup

NextTrigger ==
  \/ TriggerWith(Phones, WhitelistEnvs)
  \/ TriggerReject
  \/ Post(1, Forms({GoodRecordingUrl}))
  \/ Handle(1, {ReadyEnv}, WorksOrFails(AnalysisBehaviours),
            WorksOrFails(FinalBehaviours))

SpecTrigger == Init /\ [][NextTrigger]_vars

\* C22: the trigger creates the session as pending; when initiate_call has
\* returned a call sid its last step stores in_progress with that sid and
\* answers 200; when initiate_call has raised it stores failed with no call
\* sid and answers 500 with the error; and a session whose trigger has
\* returned is never pending.
C22_TriggerOutcome ==
  /\ [](\A s \in Sessions :
          trig[s] = "done" => /\ s \in DOMAIN interviews
                              /\ interviews[s].status # "pending")
  /\ [][\A s \in Sessions :
          /\ (trig[s] = "idle" /\ trig'[s] # "idle")
               => /\ interviews'[s].status = "pending"
                  /\ interviews'[s].twilio_call_sid = None
          /\ (trig[s] # "done" /\ trig'[s] = "done")
               => LET reply == trigger_replies'[Len(trigger_replies')]
                  IN /\ Len(trigger_replies') = Len(trigger_replies) + 1
                     /\ reply.session = s
                     /\ IF trig[s] = "placed"
                          THEN /\ reply.http = 200
                               /\ reply.call_sid # None
                               /\ interviews'[s].status = "in_progress"
                               /\ interviews'[s].twilio_call_sid = reply.call_sid
                        ELSE /\ reply.http = 500
                             /\ reply.error # ""
                             /\ interviews'[s].status = "failed"
                             /\ interviews'[s].twilio_call_sid = None]_vars

\* C22: a trigger whose call placement raised has answered 500 with the
\* error and its session is failed with no call sid.
C22_Witness ==
  \E i \in 1..Len(trigger_replies) :
    LET reply == trigger_replies[i]
    IN /\ reply.http = 500 /\ reply.error = "provider error"
       /\ reply.session \in DOMAIN interviews
       /\ trig[reply.session] = "done"
       /\ interviews[reply.session].status = "failed"
       /\ interviews[reply.session].twilio_call_sid = None

\* C23: no step changes or clears a call sid that is stored.
C23_CallSidWriteOnce ==
  [][\A s \in DOMAIN interviews :
       interviews[s].twilio_call_sid # None
         => interviews'[s].twilio_call_sid = interviews[s].twilio_call_sid]_vars

\* The errors initiate_call raises for an input or a number it refuses.
ValidationErrors ==
  {"candidate_phone cannot be empty", "questions list cannot be empty",
   "Phone number is not whitelisted"}

\* C30: a trigger request refused for an empty question list, an empty
\* phone number or a number that is not on the allow-list has left no
\* session row.
C30_RejectionLeavesNoRow ==
  \A i \in 1..Len(trigger_replies) :
    trigger_replies[i].error \in ValidationErrors
      => trigger_replies[i].session \notin DOMAIN interviews

\* C24: a step that takes a session from in_progress to completed or failed
\* is the save of a call-status handler or the save of the sweep; no step
\* of a recording handler changes the status.
C24_TerminalByCallStatusOrSweep ==
  [][\A s \in DOMAIN interviews :
       (/\ interviews[s].status = "in_progress"
        /\ interviews'[s].status \in {"completed", "failed"})
         => \/ /\ sweep.pc = "save" /\ sweep.pk = s
               /\ sweep' # sweep
            \/ \E p \in Procs :
                 /\ req[p].kind = "call-status" /\ req[p].pk = s
                 /\ req[p].pc \in {"cs_save", "cs_failed"}
                 /\ req'[p] # req[p]]_vars

\* C25: when a call-status handler that stored completed and a recording
\* handler of the same session, whose call was placed and whose call sid is
\* stored, have both returned, the row still holds the
\* recording reference, the recording sid and the duration the call-status
\* handler stored.
C25_MetadataKept ==
  \A p, q \in Procs :
    (/\ req[p].pc = "done" /\ req[p].kind = "call-status"
     /\ req[p].wrote = "completed"
     /\ req[q].pc = "done" /\ req[q].kind = "record-response"
     /\ req[q].http = 200 /\ req[q].pk = req[p].pk
     /\ trig[req[p].pk] = "done"
     /\ interviews[req[p].pk].twilio_call_sid = Some(CallSidOf(req[p].pk)))
      => /\ interviews[req[p].pk].audio_url # None
         /\ interviews[req[p].pk].twilio_recording_sid # None
         /\ interviews[req[p].pk].duration # None

\* SpecRoute: one request arrives at one of the three webhook addresses
\* after the trigger has returned, with every combination of form fields.
NextRoute ==
  \/ Trigger
  \/ TriggersAtRest /\ Deliver(1, Forms({GoodRecordingUrl}))
  \/ Handle(1, {ReadyEnv}, WorksOrFails(AnalysisBehaviours),
            WorksOrFails(FinalBehaviours))

SpecRoute == Init /\ [][NextRoute]_vars

\* C26: a request that arrived at the record-response address with the id
\* of a stored session and a question number in its query and a recording
\* reference in its form has, once answered, been handled as a recording
\* callback: the answer is the voice script and the record of that question
\* exists, whatever its CallStatus and RecordingStatus fields.
C26_RecordingAddress ==
  \A p \in Procs :
    (/\ req[p].pc = "done" /\ deliveries[p] # NoDelivery
     /\ Get(deliveries[p]).path = "webhooks/record-response/"
     /\ Get(deliveries[p]).query.interview_id \in DOMAIN interviews
     /\ Get(deliveries[p]).form.RecordingUrl # None)
      => /\ req[p].kind = "record-response"
         /\ req[p].http = 200 /\ req[p].body = ClosingScript
         /\ \E i \in 1..Len(responses) :
              /\ responses[i].interview = Get(deliveries[p]).query.interview_id
              /\ responses[i].question_number =
                   Get(deliveries[p]).query.question_number

C28_ScoreUnsetOnFailure ==
  \A p \in Procs :
    (req[p].pc = "rr_complete" /\ req[p].analysis = "raised")
      => \A i \in Matching(req[p].pk, req[p].question_number) :
           /\ responses[i].score = None
           /\ responses[i].feedback = ""

\* C29: a call-status request with status failed, busy or no-answer whose
\* call sid is that of one session takes the branch whose step stores the
\* status failed and the completion time on that session, creates no
\* InterviewResult and answers 200, whatever the records of the session.
C29_FailedCallStatus ==
  [][\A p \in Procs :
       /\ (/\ req[p].pc = "cs_get" /\ req'[p] # req[p]
           /\ req[p].call_status \in {"failed", "busy", "no-answer"}
           /\ Cardinality(ByCallSid(req[p].call_sid)) = 1)
            => /\ req'[p].pc = "cs_failed"
               /\ req'[p].pk \in ByCallSid(req[p].call_sid)
       /\ (req[p].pc = "cs_failed" /\ req'[p] # req[p])
            => /\ interviews'[req[p].pk].status = "failed"
               /\ interviews'[req[p].pk].completed_at = Now(p)
               /\ results' = results
               /\ req'[p].pc = "done" /\ req'[p].http = 200]_vars

\* C29: a call reported as failed, busy or unanswered was stored as failed
\* on a session that has a record and no InterviewResult.
C29_Witness ==
  \E p \in Procs :
    /\ req[p].pc = "done" /\ req[p].kind = "call-status"
    /\ req[p].call_status = "failed" /\ req[p].http = 200
    /\ interviews[req[p].pk].status = "failed"
    /\ interviews[req[p].pk].completed_at = Now(p)
    /\ interviews[req[p].pk].twilio_call_sid = Some(CallSidOf(req[p].pk))
    /\ ResponsesOf(req[p].pk) # {}
    /\ ResultsOf(req[p].pk) = {}

\* SpecServices: _make_request and transcribe_audio are invoked with every
\* behaviour of their providers.
NextServices == RequestCall \/ TranscribeCall

SpecServices == Init /\ [][NextServices]_vars

\* The first attempt, among the max_retries the helper may make, that does
\* not fail with a transient error; 0 when there is none.
FirstFinal(errors) ==
  LET final == {k \in 1..max_retries :
                  k > Len(errors) \/ errors[k] # "transient"}
  IN IF final = {} THEN 0 ELSE CHOOSE k \in final : \A j \in final : k <= j

\* C31: _make_request makes at most 3 attempts; it stops at the first
\* attempt that succeeds or fails with an error that is not transient, an
\* error of the first attempt that is not transient ending it after exactly
\* one attempt; when its first three attempts fail with transient errors it
\* has made three attempts and raises; it raises exactly when its last
\* attempt failed.
C31_AtMostThreeAttempts ==
  \A i \in 1..Len(service_calls) :
    LET c == service_calls[i]
        k == FirstFinal(c.errors)
    IN c.op = "_make_request" =>
         /\ c.attempts >= 1 /\ c.attempts <= 3
         /\ c.attempts = IF k = 0 THEN 3 ELSE k
         /\ c.raised <=> c.attempts <= Len(c.errors)
         /\ (Len(c.errors) >= 1 /\ c.errors[1] = "permanent")
              => c.attempts = 1 /\ c.raised

\* C31: a request whose first three attempts failed with transient errors
\* was attempted three times and raised, and another succeeded at its third
\* attempt.
C31_Witness ==
  \E i, j \in 1..Len(service_calls) :
    /\ service_calls[i].op = "_make_request"
    /\ service_calls[i].errors = <<"transient", "transient", "transient", "transient">>
    /\ service_calls[i].attempts = 3 /\ service_calls[i].raised
    /\ service_calls[j].op = "_make_request"
    /\ service_calls[j].errors = <<"transient", "transient">>
    /\ service_calls[j].attempts = 3 /\ ~service_calls[j].raised

\* C32: a transcription whose first download is answered with an error
\* status other than 404 has attempted the download exactly once and has
\* returned its error string.
C32_PermanentDownloadError ==
  \A i \in 1..Len(service_calls) :
    LET c == service_calls[i]
    IN (/\ c.op = "transcribe_audio"
        /\ c.stage \in {"download", "whisper", "done"}
        /\ c.env.downloads[1] = "400")
         => c.downloads = 1 /\ c.stage = "download"

\* C33: every invocation of transcribe_audio has re-checked the recording at
\* most 6 times and attempted the download at most 3 times; when the
\* recording is not ready and every re-check raises or reports it not
\* ready, it has made 6 re-checks and returned the error string of the wait.
C33_TranscribeBounded ==
  \A i \in 1..Len(service_calls) :
    LET c == service_calls[i]
    IN c.op = "transcribe_audio" =>
         /\ c.polls <= max_wait \div wait_interval
         /\ c.polls <= 6
         /\ c.downloads <= 3
         /\ (/\ c.audio_url = GoodRecordingUrl
             /\ c.env.fetch = "processing"
             /\ \A k \in 1..6 : c.env.polls[k] \in {"raise", "processing"})
              => /\ c.polls = 6 /\ c.stage = "wait" /\ c.downloads = 0
                 /\ c.text[1] = FailedPrefix

\* C33: a transcription whose every re-check raised gave up after 6
\* re-checks, and another made 3 download attempts.
C33_Witness ==
  \E i, j \in 1..Len(service_calls) :
    /\ service_calls[i].op = "transcribe_audio"
    /\ service_calls[i].env.fetch = "processing"
    /\ service_calls[i].env.polls = LongPolls("raise")
    /\ service_calls[i].polls = 6 /\ service_calls[i].stage = "wait"
    /\ service_calls[j].op = "transcribe_audio"
    /\ service_calls[j].downloads = 3 /\ service_calls[j].stage = "download"

\* C34: the save of the view that placed the call does not replace a status
\* of completed or failed that a callback stored between the provider's
\* acceptance of the call and that save.
C34_InitiatorKeepsTerminal ==
  [][\A s \in DOMAIN interviews :
       (/\ trig[s] = "placed" /\ trig'[s] = "done"
        /\ interviews[s].status \in {"completed", "failed"})
         => interviews'[s].status = interviews[s].status]_vars

\* C35: a step that creates the InterviewResult of a session whose call sid
\* is stored finds no ResponseRecord of that session with the transcript
\* 'Processing...'.
C35_ResultFromTranscribed ==
  [][\A s \in DOMAIN interviews :
       (/\ interviews[s].twilio_call_sid = Some(CallSidOf(s))
        /\ ResultsOf(s) = {} /\ results' # results
        /\ results'[Len(results')].interview = s)
         => \A i \in ResponsesOf(s) :
              responses[i].transcript # <<"Processing...">>]_vars

\* C36: a call-status request that arrived without a CallSid field has,
\* once answered, saved no session.
C36_NoCallSidNoChange ==
  \A p \in Procs :
    (/\ req[p].pc = "done" /\ deliveries[p] # NoDelivery
     /\ req[p].kind = "call-status"
     /\ Get(deliveries[p]).form.CallSid = None)
      => req[p].wrote = ""

\* C37: an invocation of initiate_call under a WHITELISTED_NUMBERS that is
\* set to a text that cannot be parsed asks the provider for no call.
C37_UnparsableFailsClosed ==
  [][starts' # starts =>
       LET a == starts'[Len(starts')]
       IN a.whitelist_env.kind = "invalid" => calls' = calls]_vars

\* C38: every session whose status is completed has at least one
\* ResponseRecord.
C38_CompletedHasRecord ==
  \A s \in DOMAIN interviews :
    interviews[s].status = "completed" => ResponsesOf(s) # {}

\* C38: a call-status handler that counted the one record of its session
\* stored completed and has returned, and the session is completed.
C38_Witness ==
  \E p \in Procs :
    /\ req[p].pc = "done" /\ req[p].kind = "call-status"
    /\ req[p].wrote = "completed"
    /\ interviews[req[p].pk].status = "completed"
    /\ Cardinality(ResponsesOf(req[p].pk)) = 1

\* SpecNumbers: one request arrives after the trigger has returned; the
\* question_number of its query is any integer int() accepts, among them
\* zero and negative ones.
SignedQuestionNumbers == (0 - MaxQuestions - 1)..(MaxQuestions + 1)

PostNumber(p) ==
  /\ NextSlot(p)
  /\ \E form \in Forms({GoodRecordingUrl}), interview_id \in Sessions \cup {UnknownId},
        question_number \in SignedQuestionNumbers :
       Receive(p, form, [interview_id |-> interview_id,
                         question_number |-> question_number])
  /\ UNCHANGED <<interviews, responses, results, aggregate_calls, trig, ext>>

NextNumbers ==
  \/ Trigger
  \/ TriggersAtRest /\ PostNumber(1)
  \/ Handle(1, {ReadyEnv}, WorksOrFails(AnalysisBehaviours),
            WorksOrFails(FinalBehaviours))

SpecNumbers == Init /\ [][NextNumbers]_vars

\* C39: the question number of every stored ResponseRecord is at least 1.
C39_QuestionNumberPositive ==
  \A i \in 1..Len(responses) : responses[i].question_number >= 1

\* C40: when the script or the view of the remediation sets a session that
\* is in_progress to failed, the session has existed for at least 15
\* minutes.
C40_NotBeforeThreshold ==
  [][sweep' # sweep =>
       \A s \in DOMAIN interviews :
         (/\ interviews[s].status = "in_progress"
          /\ interviews'[s].status = "failed")
           => age[s] >= 15]_vars

====
